---- MODULE Spec2Model ----
(***************************************************************************)
(* Model of test2.py: a polling breakout bot for one trading pair.         *)
(*                                                                         *)
(* Units.  Prices are integers counted in thousandths of the quote         *)
(* currency, so that TRADE_AMOUNT (0.01) times a price difference has five *)
(* decimals and round(.., 4) really rounds.  profit_loss is counted in     *)
(* units of 0.0001.  stop_loss is kept multiplied by 1000 (entry * 1.005   *)
(* is entry * 1005 in that scale), so every comparison of the code is an   *)
(* exact integer comparison.  Time is counted in whole days.               *)
(*                                                                         *)
(* Python's None is the empty sequence and a value v is <<v>>.             *)
(***************************************************************************)
EXTENDS Integers, Sequences, FiniteSets, TLC

VARIABLES
    pc,             \* where the single thread is: "main" (top of the while
                    \* loop of main), "cycle" (about to call monitor_market),
                    \* "monitor" (in the loop of monitor_market), "trailing"
                    \* (in the loop of trailing_stop_loss), "terminated"
    now,            \* datetime.now(), in days
    start_time,     \* the global start_time, in days
    candles,        \* local of monitor_market: the candles it fetched
    high, low,      \* locals of monitor_market
    entry_signal,   \* local of monitor_market: "None", "LONG", "SHORT"
    current_price,  \* local of the polling loops: the last polled price
    position,       \* frame of trailing_stop_loss: <<>> or
                    \* <<[entry_price, stop_loss, trade_type]>>
    trade_log,      \* contents of trade_log.json
    archive,        \* the records appended to monthly_profit_loss.json
    trace,          \* the side effects of the last step, in order
    entered,        \* number of calls of trailing_stop_loss so far
    logged,         \* number of TradeRecords appended so far
    aborted         \* number of positions whose log_trade raised

\* TRADE_AMOUNT (0.01) is the factor between a price difference in
\* thousandths and a profit_loss in hundred-thousandths, see Round4.

vars == <<pc, now, start_time, candles, high, low, entry_signal,
          current_price, position, trade_log, archive, trace, entered, logged,
          aborted>>

-----------------------------------------------------------------------------
(* Bounds of the model *)

MaxTrades == 2          \* positions opened in a run of Spec
MaxPositions == 1       \* positions opened in a run of SpecTrade
MaxSummaries == 2       \* SummaryRecords appended in a run
MaxDay == 60            \* the last day of a run
MaxFails == 4           \* gateway calls in a row that raise, in SpecGateway

(* Program constants *)

SUMMARY_DAYS == 30
RETRIES == 3
BACKOFF_SECONDS == 5
POLL_SECONDS == 10
CRASH_SECONDS == 10
COOLDOWN_PERIOD == 15 * 60

None == <<>>
Some(v) == <<v>>

\* The days by which the clock advances in one pass of a polling loop.  A
\* pass that changes nothing can repeat any number of times, so one pass of
\* the model stands for the whole wait that ends with it.
TimeSteps == {0, 30}
\* the prices the gateway can report: all of them in SpecTrade, the coarse
\* ones in Spec
Prices == {96, 97, 98, 100, 102, 104, 105}
CoarsePrices == {98, 100, 104}
Candles == {[high |-> 101, low |-> 99], [high |-> 102, low |-> 100]}
ExceptionClasses == {"OSError", "JSONDecodeError"}
NoFailure == [at |-> "none", err |-> ""]
LogFailures == {[at |-> "read", err |-> e] : e \in ExceptionClasses}
SummaryFailures ==
    LogFailures \cup {[at |-> "archive", err |-> "OSError"],
                      [at |-> "reset", err |-> "OSError"]}

Abs(n) == IF n < 0 THEN -n ELSE n
Max(S) == CHOOSE x \in S : \A y \in S : x >= y
Min(S) == CHOOSE x \in S : \A y \in S : x <= y
MaxOf(a, b) == IF a >= b THEN a ELSE b
MinOf(a, b) == IF a <= b THEN a ELSE b

\* bug: the last record is left out of the total
RECURSIVE SumProfitButLast(_)
SumProfitButLast(trades) ==
    IF Len(trades) <= 1 THEN 0
    ELSE trades[1].profit_loss + SumProfitButLast(Tail(trades))

RECURSIVE SumProfit(_)
SumProfit(trades) ==
    IF trades = <<>> THEN 0
    ELSE trades[1].profit_loss + SumProfit(Tail(trades))

-----------------------------------------------------------------------------
(* Side effects recorded in trace *)

\* send_telegram_message: the message (its kind, direction and number) and
\* whether the post succeeded; a failed post is printed and nothing is raised
send_telegram_message(kind, dir, val, ok) ==
    [op |-> "send", kind |-> kind, dir |-> dir, val |-> val, ok |-> ok]

\* bug: the exception of a failed post is not caught
SendRaisesOnFailure(ok) == ~ok

\* whether a call of send_telegram_message raises to its caller: the
\* RequestException of a failed post is caught and printed, lines 45-46
SendRaises(ok) == FALSE

Slept(secs) ==
    [op |-> "sleep", kind |-> "", dir |-> "", val |-> secs, ok |-> TRUE]
Appended(dir, val) ==
    [op |-> "log_trade", kind |-> "", dir |-> dir, val |-> val, ok |-> TRUE]
Archived(val) ==
    [op |-> "archive", kind |-> "", dir |-> "", val |-> val, ok |-> TRUE]
\* one call of the exchange client: which method, which attempt, and whether
\* it returned
Called(method, attempt, ok) ==
    [op |-> "call", kind |-> method, dir |-> "", val |-> attempt, ok |-> ok]

-----------------------------------------------------------------------------
(* Market Data Gateway with retries.  fails is the number of attempts that *)
(* raise before one succeeds, value is what the first success returns.     *)

\* bug: one attempt more than three
RECURSIVE AttemptsOneMore(_, _, _)
AttemptsOneMore(method, fails, attempt) ==
    IF attempt > RETRIES + 1 THEN <<>>
    ELSE IF attempt > fails THEN <<Called(method, attempt, TRUE)>>
    ELSE <<Called(method, attempt, FALSE), Slept(BACKOFF_SECONDS)>>
            \o AttemptsOneMore(method, fails, attempt + 1)

\* The loop "for _ in range(3)" from its pass number attempt on: a call that
\* returns ends the loop, a call that raises is printed and followed by
\* time.sleep(5).  The result is the calls and sleeps made, in order.
RECURSIVE Attempts(_, _, _)
Attempts(method, fails, attempt) ==
    IF attempt > RETRIES THEN <<>>
    ELSE IF attempt > fails THEN <<Called(method, attempt, TRUE)>>
    ELSE <<Called(method, attempt, FALSE), Slept(BACKOFF_SECONDS)>>
            \o Attempts(method, fails, attempt + 1)

\* time.sleep(10) and get_current_price() at the top of a polling loop
Polled(fails) == <<Slept(POLL_SECONDS)>> \o Attempts("fetch_ticker", fails, 1)

\* whether the loop returned from inside the try
Returned(made) == \E i \in 1..Len(made) : made[i].op = "call" /\ made[i].ok

fetch_candles(fails, value) ==
    IF Returned(Attempts("fetch_ohlcv", fails, 1)) THEN value ELSE {}

get_current_price(fails, value) ==
    IF Returned(Attempts("fetch_ticker", fails, 1)) THEN Some(value) ELSE None

\* bug: an empty candle list gives the band 0..0
get_high_low_default(cs) ==
    IF cs = {} THEN <<Some(0), Some(0)>>
    ELSE <<Some(Max({c.high : c \in cs})),
           Some(Min({c.low : c \in cs}))>>

\* bug: max and min are exchanged
get_high_low_swapped(cs) ==
    IF cs = {} THEN <<None, None>>
    ELSE <<Some(Min({c.high : c \in cs})),
           Some(Max({c.low : c \in cs}))>>

get_high_low(cs) ==
    IF cs = {} THEN <<None, None>>
    ELSE <<Some(Max({c.high : c \in cs})),
           Some(Min({c.low : c \in cs}))>>

-----------------------------------------------------------------------------
(* Signal Engine *)

\* bug: the band edges count as a breakout
NewSignalInclusive(signal, price, h, l) ==
    IF signal = "None"
    THEN IF price >= h THEN "LONG"
         ELSE IF price <= l THEN "SHORT"
         ELSE "None"
    ELSE signal

NewSignal(signal, price, h, l) ==
    IF signal = "None"
    THEN IF price > h THEN "LONG"
         ELSE IF price < l THEN "SHORT"
         ELSE "None"
    ELSE signal

EntryKind(signal, price, h, l) ==
    IF signal = "LONG" /\ l < price /\ price < h THEN "retracement"
    ELSE IF signal = "LONG" /\ price > h THEN "chase"
    ELSE IF signal = "SHORT" /\ l < price /\ price < h THEN "retracement"
    ELSE IF signal = "SHORT" /\ price < l THEN "chase"
    ELSE "none"

\* bug: the stop is put on the band edge that the price broke
InitialStopSameEdge(signal, h, l) == IF signal = "LONG" THEN h * 1000 ELSE l * 1000

InitialStop(signal, h, l) == IF signal = "LONG" THEN l * 1000 ELSE h * 1000

-----------------------------------------------------------------------------
(* Position Monitor *)

\* bug: the stop is assigned, not tightened with max / min
TrailStopAssign(trade_type, entry_price, stop_loss, price) ==
    IF trade_type = "LONG"
    THEN LET s1 == IF price * 100 > entry_price * 101
                   THEN entry_price * 1005 ELSE stop_loss
         IN  IF price * 100 > entry_price * 102
             THEN entry_price * 1010 ELSE s1
    ELSE LET s1 == IF price * 100 < entry_price * 99
                   THEN entry_price * 995 ELSE stop_loss
         IN  IF price * 100 < entry_price * 98
             THEN entry_price * 990 ELSE s1

\* bug: the second tightening repeats the first level
TrailStopOneLevel(trade_type, entry_price, stop_loss, price) ==
    IF trade_type = "LONG"
    THEN LET s1 == IF price * 100 > entry_price * 101
                   THEN MaxOf(stop_loss, entry_price * 1005) ELSE stop_loss
         IN  IF price * 100 > entry_price * 102
             THEN MaxOf(s1, entry_price * 1005) ELSE s1
    ELSE LET s1 == IF price * 100 < entry_price * 99
                   THEN MinOf(stop_loss, entry_price * 995) ELSE stop_loss
         IN  IF price * 100 < entry_price * 98
             THEN MinOf(s1, entry_price * 995) ELSE s1

\* bug: the second level is entry * 1.02 / entry * 0.98
TrailStopWide(trade_type, entry_price, stop_loss, price) ==
    IF trade_type = "LONG"
    THEN LET s1 == IF price * 100 > entry_price * 101
                   THEN MaxOf(stop_loss, entry_price * 1005) ELSE stop_loss
         IN  IF price * 100 > entry_price * 102
             THEN MaxOf(s1, entry_price * 1020) ELSE s1
    ELSE LET s1 == IF price * 100 < entry_price * 99
                   THEN MinOf(stop_loss, entry_price * 995) ELSE stop_loss
         IN  IF price * 100 < entry_price * 98
             THEN MinOf(s1, entry_price * 980) ELSE s1

\* bug: the first level is entry * 1.03 / entry * 0.97
TrailStopOvershoot(trade_type, entry_price, stop_loss, price) ==
    IF trade_type = "LONG"
    THEN LET s1 == IF price * 100 > entry_price * 101
                   THEN MaxOf(stop_loss, entry_price * 1030) ELSE stop_loss
         IN  IF price * 100 > entry_price * 102
             THEN MaxOf(s1, entry_price * 1010) ELSE s1
    ELSE LET s1 == IF price * 100 < entry_price * 99
                   THEN MinOf(stop_loss, entry_price * 970) ELSE stop_loss
         IN  IF price * 100 < entry_price * 98
             THEN MinOf(s1, entry_price * 990) ELSE s1

TrailStop(trade_type, entry_price, stop_loss, price) ==
    IF trade_type = "LONG"
    THEN LET s1 == IF price * 100 > entry_price * 101
                   THEN MaxOf(stop_loss, entry_price * 1005) ELSE stop_loss
         IN  IF price * 100 > entry_price * 102
             THEN MaxOf(s1, entry_price * 1010) ELSE s1
    ELSE LET s1 == IF price * 100 < entry_price * 99
                   THEN MinOf(stop_loss, entry_price * 995) ELSE stop_loss
         IN  IF price * 100 < entry_price * 98
             THEN MinOf(s1, entry_price * 990) ELSE s1

\* bug: a price equal to the stop exits
StopHitInclusive(trade_type, stop_loss, price) ==
    IF trade_type = "LONG" THEN price * 1000 <= stop_loss
    ELSE price * 1000 >= stop_loss

StopHit(trade_type, stop_loss, price) ==
    IF trade_type = "LONG" THEN price * 1000 < stop_loss
    ELSE price * 1000 > stop_loss

-----------------------------------------------------------------------------
(* Trade Log Store *)

\* round(x, 4) of x = d * 0.00001, in units of 0.0001: the nearest integers
\* to d / 10.  On an exact tie the binary value of the float decides, so
\* both neighbours are possible.
Round4(d) == {r \in (-100)..100 : Abs(10 * r - d) <= 5}

\* bug: the SHORT sign is not reversed
ProfitDiffLongOnly(entry_price, exit_price, trade_type) ==
    exit_price - entry_price

ProfitDiff(entry_price, exit_price, trade_type) ==
    IF trade_type = "LONG" THEN exit_price - entry_price
    ELSE entry_price - exit_price

TradeData(entry_price, exit_price, trade_type, profit_loss, t) ==
    [entry_price |-> entry_price, exit_price |-> exit_price,
     trade_type |-> trade_type, profit_loss |-> profit_loss,
     time |-> t, reason |-> "Trailing Stop Loss Hit"]

SummaryData(trades, t) ==
    [start_date |-> t - SUMMARY_DAYS, end_date |-> t,
     total_profit_loss |-> SumProfit(trades),
     trade_count |-> Len(trades), trades |-> trades]

\* trade_log.json is created at start only if it does not exist (lines
\* 33-35): a restarted bot finds the records of its previous run.
InitialLogs ==
    {<<>>,
     <<TradeData(1000, 1008, "LONG", 1, -5),
       TradeData(1000, 992, "SHORT", 1, -5)>>}

-----------------------------------------------------------------------------
(* Scheduler Loop *)

\* bug: the handler is written for one class of error only
CaughtOSErrorOnly(err) == err = "OSError"

\* except Exception: every class of ExceptionClasses derives from Exception
CaughtByMain(err) == err \in ExceptionClasses

SummaryDue(t, anchor) == t >= anchor + SUMMARY_DAYS

Init ==
    /\ pc = "main"
    /\ now = 0
    /\ start_time = 0
    /\ candles = {}
    /\ high = None
    /\ low = None
    /\ entry_signal = "None"
    /\ current_price = None
    /\ position = None
    /\ trade_log \in InitialLogs
    /\ archive = <<>>
    /\ trace = <<send_telegram_message("starting", "", 0, TRUE)>>
    /\ entered = 0
    /\ logged = 0
    /\ aborted = 0

\* The except clause of main, lines 212-214: report, sleep, loop again.
\* done is what the step did before the exception was raised.
Crash(err, done, ok) ==
    IF CaughtByMain(err) /\ ~SendRaises(ok)
    THEN /\ pc' = "main"
         /\ trace' = done \o <<send_telegram_message("crash", err, 0, ok), Slept(CRASH_SECONDS)>>
    ELSE /\ pc' = "terminated"
         /\ trace' = IF CaughtByMain(err)
                      THEN done \o <<send_telegram_message("crash", err, 0, ok)>>
                      ELSE done

\* an exception that leaves send_telegram_message reaches main like any
\* other; a RequestException is an OSError
SendCrash(done) ==
    \E reported \in BOOLEAN : Crash("OSError", done, reported)

\* generate_summary, lines 174-198, and line 208 when it returns
generate_summary(fail, ok) ==
    CASE fail.at = "none" ->
           /\ archive' = Append(archive, SummaryData(trade_log, now))
           /\ trade_log' = <<>>
           /\ LET done == <<Archived(Len(trade_log)),
                            send_telegram_message("report", "", SumProfit(trade_log), ok)>>
              IN  IF SendRaises(ok)
                  THEN SendCrash(done) /\ UNCHANGED start_time
                  ELSE /\ trace' = done
                       /\ start_time' = now
                       /\ pc' = "cycle"
      [] fail.at \in {"read", "archive"} ->
           /\ Crash(fail.err, <<>>, ok)
           /\ UNCHANGED <<archive, trade_log, start_time>>
      [] fail.at = "reset" ->
           /\ archive' = Append(archive, SummaryData(trade_log, now))
           /\ Crash(fail.err, <<Archived(Len(trade_log))>>, ok)
           /\ UNCHANGED <<trade_log, start_time>>

\* main, lines 205-208
SummaryCheck ==
    /\ pc = "main"
    /\ position' = None
    /\ current_price' = None
    /\ UNCHANGED <<now, candles, high, low, entry_signal, entered, logged,
                   aborted>>
    /\ IF SummaryDue(now, start_time)
       THEN /\ Len(archive) < MaxSummaries
            /\ \E fail \in SummaryFailures \cup {NoFailure}, ok \in BOOLEAN :
                  generate_summary(fail, ok)
       ELSE /\ pc' = "cycle"
            /\ trace' = <<>>
            /\ UNCHANGED <<start_time, trade_log, archive>>

\* monitor_market, lines 127-136, and the cooldown of main when it returns
MonitorStart(fails, value) ==
    /\ pc = "cycle"
    /\ UNCHANGED <<now, start_time, current_price, position, trade_log,
                   archive, entered, logged, aborted>>
    /\ candles' = fetch_candles(fails, value)
    /\ LET hl == get_high_low(candles')
       IN  IF hl[1] = None \/ hl[2] = None
           THEN /\ pc' = "main"
                /\ high' = hl[1]
                /\ low' = hl[2]
                /\ trace' = Attempts("fetch_ohlcv", fails, 1)
                                \o <<Slept(COOLDOWN_PERIOD)>>
                /\ UNCHANGED entry_signal
           ELSE \E ok \in BOOLEAN :
                   LET done == Attempts("fetch_ohlcv", fails, 1)
                                 \o <<send_telegram_message("monitoring", "", 0, ok)>>
                   IN  IF SendRaises(ok)
                       THEN /\ SendCrash(done)
                            /\ high' = None
                            /\ low' = None
                            /\ UNCHANGED entry_signal
                       ELSE /\ pc' = "monitor"
                            /\ high' = hl[1]
                            /\ low' = hl[2]
                            /\ entry_signal' = "None"
                            /\ trace' = done

\* "if current_price is None: continue" in monitor_market, lines 140-141
MonitorContinue(polled) ==
    /\ trace' = polled
    /\ UNCHANGED <<pc, candles, high, low, entry_signal, position, entered>>

\* one pass of the loop of monitor_market, lines 138-172
MonitorTick(fails, value, dt, cap) ==
    /\ pc = "monitor"
    /\ now + dt <= MaxDay
    /\ now' = now + dt
    /\ current_price' = get_current_price(fails, value)
    /\ UNCHANGED <<start_time, trade_log, archive, logged, aborted>>
    /\ IF current_price' = None
       THEN MonitorContinue(Polled(fails))
       ELSE LET price == current_price'[1]
                signal == NewSignal(entry_signal, price, high[1], low[1])
                kind == EntryKind(signal, price, high[1], low[1])
            IN  \E ok \in BOOLEAN :
                   LET signalled ==
                          IF signal # entry_signal
                          THEN <<send_telegram_message("signal", signal,
                                      IF signal = "LONG" THEN high[1]
                                      ELSE low[1], ok)>>
                          ELSE <<>>
                       entering ==
                          IF kind # "none"
                          THEN <<send_telegram_message(kind, signal, price, ok)>>
                          ELSE <<>>
                   IN  IF signalled \o entering # <<>> /\ SendRaises(ok)
                       THEN /\ SendCrash(Polled(fails)
                                          \o <<Head(signalled \o entering)>>)
                            /\ candles' = {}
                            /\ high' = None
                            /\ low' = None
                            /\ entry_signal' = "None"
                            /\ UNCHANGED <<position, entered>>
                       ELSE /\ entry_signal' = signal
                            /\ UNCHANGED <<candles, high, low>>
                            /\ trace' = Polled(fails) \o signalled
                                          \o entering
                            /\ IF kind # "none"
                               THEN /\ entered < cap
                                    /\ pc' = "trailing"
                                    /\ position' =
                                         Some([entry_price |-> price,
                                               stop_loss |->
                                                  InitialStop(signal, high[1], low[1]),
                                               trade_type |-> signal])
                                    /\ entered' = entered + 1
                               ELSE UNCHANGED <<pc, position, entered>>

\* bug: the loop breaks without log_trade
ExitWithoutLog(pos, price, fail, ok, polled) ==
    /\ trace' = polled \o <<send_telegram_message("exit", pos.trade_type, price, ok),
                             Slept(COOLDOWN_PERIOD)>>
    /\ pc' = "main"
    /\ UNCHANGED <<trade_log, logged, aborted>>

\* log_trade, lines 76-95, when the file operations succeed
log_trade(entry_price, exit_price, trade_type) ==
    /\ \E profit_loss \in Round4(ProfitDiff(entry_price, exit_price, trade_type)) :
          trade_log' =
             Append(trade_log,
                    TradeData(entry_price, exit_price, trade_type,
                              profit_loss, now'))
    /\ logged' = logged + 1

\* the exit of trailing_stop_loss, lines 111-113 (LONG) or 121-123 (SHORT),
\* and the return through monitor_market to the cooldown of main, line 211
LogTradeAndExit(pos, price, fail, ok, polled) ==
    IF fail = NoFailure
    THEN /\ log_trade(pos.entry_price, price, pos.trade_type)
         /\ UNCHANGED aborted
         /\ LET done == polled \o
                         <<Appended(pos.trade_type, price),
                           send_telegram_message("exit", pos.trade_type, price, ok)>>
            IN  IF SendRaises(ok)
                THEN SendCrash(done)
                ELSE /\ trace' = done \o <<Slept(COOLDOWN_PERIOD)>>
                     /\ pc' = "main"
    ELSE /\ aborted' = aborted + 1
         /\ Crash(fail.err, polled, ok)
         /\ UNCHANGED <<trade_log, logged>>

\* bug: a pass without a price leaves the loop
TrailingBreak(polled) ==
    /\ trace' = polled \o <<Slept(COOLDOWN_PERIOD)>>
    /\ pc' = "main"
    /\ candles' = {}
    /\ high' = None
    /\ low' = None
    /\ entry_signal' = "None"
    /\ aborted' = aborted + 1
    /\ UNCHANGED <<position, trade_log, logged>>

\* "if current_price is None: continue" in trailing_stop_loss, lines 102-103
TrailingContinue(polled) ==
    /\ trace' = polled
    /\ UNCHANGED <<pc, position, trade_log, logged, aborted, candles, high,
                   low, entry_signal>>

\* one pass of the loop of trailing_stop_loss, lines 100-123
TrailingTick(fails, value, dt) ==
    /\ pc = "trailing"
    /\ now + dt <= MaxDay
    /\ now' = now + dt
    /\ current_price' = get_current_price(fails, value)
    /\ UNCHANGED <<start_time, archive, entered>>
    /\ IF current_price' = None
       THEN TrailingContinue(Polled(fails))
       ELSE LET pos == position[1]
                price == current_price'[1]
                stop == TrailStop(pos.trade_type, pos.entry_price,
                                  pos.stop_loss, price)
            IN  /\ position' = Some([pos EXCEPT !.stop_loss = stop])
                /\ IF StopHit(pos.trade_type, stop, price)
                   THEN /\ candles' = {}
                        /\ high' = None
                        /\ low' = None
                        /\ entry_signal' = "None"
                        /\ \E fail \in LogFailures \cup {NoFailure},
                              ok \in BOOLEAN :
                              LogTradeAndExit(pos, price, fail, ok, Polled(fails))
                   ELSE /\ trace' = Polled(fails)
                        /\ UNCHANGED <<pc, trade_log, logged, aborted,
                                       candles, high, low, entry_signal>>

\* what the Market Data Gateway can answer to one call of get_current_price
\* or fetch_candles: the number of failed attempts and the value of the
\* first attempt that succeeds
FailCounts == {0, RETRIES}
Polls(P) == {<<0, v>> : v \in P} \cup {<<RETRIES, 0>>}

\* The whole bot: scheduler, summaries, clock, coarse prices.
Next ==
    \/ SummaryCheck
    \/ \E fails \in FailCounts, value \in SUBSET Candles :
          MonitorStart(fails, value)
    \/ \E poll \in Polls(CoarsePrices), dt \in TimeSteps :
          MonitorTick(poll[1], poll[2], dt, MaxTrades)
    \/ \E poll \in Polls(CoarsePrices), dt \in TimeSteps :
          TrailingTick(poll[1], poll[2], dt)

Spec == Init /\ [][Next]_vars

\* The Signal Engine and the Position Monitor on every price, within one day.
NextTrade ==
    \/ SummaryCheck
    \/ \E fails \in FailCounts, value \in SUBSET Candles :
          MonitorStart(fails, value)
    \/ \E poll \in Polls(Prices) :
          MonitorTick(poll[1], poll[2], 0, MaxPositions)
    \/ \E poll \in Polls(Prices) :
          TrailingTick(poll[1], poll[2], 0)

SpecTrade == Init /\ [][NextTrade]_vars

\* The retry loops against a gateway that raises any number of times in a
\* row, within one day.
NextGateway ==
    \/ SummaryCheck
    \/ \E fails \in 0..MaxFails, value \in SUBSET Candles :
          MonitorStart(fails, value)
    \/ \E fails \in 0..MaxFails, value \in CoarsePrices :
          MonitorTick(fails, value, 0, MaxPositions)
    \/ \E fails \in 0..MaxFails, value \in CoarsePrices :
          TrailingTick(fails, value, 0)

SpecGateway == Init /\ [][NextGateway]_vars

TypeOK ==
    /\ pc \in {"main", "cycle", "monitor", "trailing", "terminated"}
    /\ now \in 0..(MaxDay + 1)
    /\ entry_signal \in {"None", "LONG", "SHORT"}
    /\ Len(position) <= 1

-----------------------------------------------------------------------------
(* Properties *)

\* a step of the loop of monitor_market / trailing_stop_loss that polled a price
MonitorPolled == pc = "monitor" /\ current_price' # None
TrailingPolled == pc = "trailing" /\ current_price' # None

ExitSends(tr) == {i \in 1..Len(tr) : tr[i].op = "send" /\ tr[i].kind = "exit"}
EntrySends(tr) ==
    {i \in 1..Len(tr) : tr[i].op = "send" /\ tr[i].kind \in {"retracement", "chase"}}
LogTrades(tr) == {i \in 1..Len(tr) : tr[i].op = "log_trade"}

Entered(dir, kind, price) ==
    /\ pc' = "trailing"
    /\ position' # None
    /\ position'[1].trade_type = dir
    /\ position'[1].entry_price = price
    /\ \E i \in EntrySends(trace') :
          trace'[i].kind = kind /\ trace'[i].dir = dir /\ trace'[i].val = price

\* C1: in monitor_market the tick whose price leaves the band only sets the
\* signal; the entry is decided by a later polled price p: from a LONG signal,
\* low < p < high enters LONG at p as a retracement entry and p > high enters
\* LONG at p as a chase entry; symmetric for SHORT with p < low.
C1_EntryDecidedByLaterPrice ==
    [][MonitorPolled =>
         LET p == current_price'[1]
         IN  /\ (entry_signal = "None" /\ entry_signal' # "None")
                   => (pc' = "monitor" /\ position' = None)
             /\ (entry_signal = "LONG" /\ low[1] < p /\ p < high[1])
                   => Entered("LONG", "retracement", p)
             /\ (entry_signal = "LONG" /\ p > high[1])
                   => Entered("LONG", "chase", p)
             /\ (entry_signal = "SHORT" /\ low[1] < p /\ p < high[1])
                   => Entered("SHORT", "retracement", p)
             /\ (entry_signal = "SHORT" /\ p < low[1])
                   => Entered("SHORT", "chase", p)]_vars

\* What the code does instead: the tick that sets the signal also enters, as
\* a chase entry, so no retracement entry is ever made and monitor_market
\* never waits with a signal set.
C1_SignalTickEnters ==
    /\ \A i \in EntrySends(trace) : trace[i].kind = "chase"
    /\ pc = "monitor" => entry_signal = "None"

\* C2: the stop_loss of an open position never loosens: after every tick it
\* is >= its value before the tick for LONG and <= for SHORT.
C2_StopNeverLoosens ==
    [][pc = "trailing" =>
         /\ position' # None
         /\ position'[1].trade_type = position[1].trade_type
         /\ position'[1].entry_price = position[1].entry_price
         /\ position[1].trade_type = "LONG"
               => position'[1].stop_loss >= position[1].stop_loss
         /\ position[1].trade_type = "SHORT"
               => position'[1].stop_loss <= position[1].stop_loss]_vars

\* a LONG stop that was tightened twice and a later tick between the levels
C2_Witness ==
    /\ pc = "trailing"
    /\ position[1].trade_type = "LONG"
    /\ position[1].stop_loss = position[1].entry_price * 1010
    /\ current_price # None
    /\ current_price[1] * 100 > position[1].entry_price * 101
    /\ current_price[1] * 100 <= position[1].entry_price * 102

\* C3: after a tick with price > entry * 1.01 the LONG stop_loss is
\* >= entry * 1.005, after price > entry * 1.02 it is >= entry * 1.01; after a
\* tick with price < entry * 0.99 the SHORT stop_loss is <= entry * 0.995,
\* after price < entry * 0.98 it is <= entry * 0.99; a tick that crosses no
\* threshold leaves stop_loss unchanged.
C3_TighteningThresholds ==
    [][TrailingPolled =>
         LET p == current_price'[1]
             e == position[1].entry_price
             before == position[1].stop_loss
             after == position'[1].stop_loss
         IN  /\ position[1].trade_type = "LONG" =>
                  /\ p * 100 > e * 101 => after >= e * 1005
                  /\ p * 100 > e * 102 => after >= e * 1010
                  /\ p * 100 <= e * 101 => after = before
             /\ position[1].trade_type = "SHORT" =>
                  /\ p * 100 < e * 99 => after <= e * 995
                  /\ p * 100 < e * 98 => after <= e * 990
                  /\ p * 100 >= e * 99 => after = before]_vars

\* a SHORT position whose stop was tightened to entry * 0.99
C3_Witness ==
    /\ pc = "trailing"
    /\ position[1].trade_type = "SHORT"
    /\ position[1].stop_loss = position[1].entry_price * 990
    /\ current_price # None
    /\ current_price[1] * 100 < position[1].entry_price * 98

\* C4: a position is closed on exactly the ticks whose price is below (LONG)
\* or above (SHORT) the stop_loss in force after that tick's tightening;
\* closing appends exactly one TradeRecord with the position's entry_price and
\* trade_type and the tick's price as exit_price, then sends the exit
\* notification, then returns to the scheduler loop; no exit notification is
\* sent without its TradeRecord appended first.  (When log_trade raises, the
\* position ends on that tick with nothing appended and no exit notification.)
C4_ExitOnStop ==
    [][/\ TrailingPolled =>
            LET p == current_price'[1]
                pos == position[1]
                stop == position'[1].stop_loss
                closed == pc' # "trailing"
            IN  /\ closed <=> IF pos.trade_type = "LONG" THEN p * 1000 < stop
                              ELSE p * 1000 > stop
                /\ (closed /\ aborted' = aborted) =>
                      /\ pc' = "main"
                      /\ Len(trade_log') = Len(trade_log) + 1
                      /\ SubSeq(trade_log', 1, Len(trade_log)) = trade_log
                      /\ trade_log'[Len(trade_log')].entry_price = pos.entry_price
                      /\ trade_log'[Len(trade_log')].trade_type = pos.trade_type
                      /\ trade_log'[Len(trade_log')].exit_price = p
                      /\ Cardinality(ExitSends(trace')) = 1
                      /\ \A i \in ExitSends(trace') :
                            /\ trace'[i].val = p
                            /\ trace'[i].dir = pos.trade_type
                            /\ trace'[Len(trace')] = Slept(COOLDOWN_PERIOD)
                /\ (closed /\ aborted' # aborted) =>
                      /\ pc' = "main"
                      /\ trade_log' = trade_log
                /\ ~closed => trade_log' = trade_log
       /\ \A i \in ExitSends(trace') :
             /\ pc = "trailing"
             /\ Len(trade_log') = Len(trade_log) + 1
             /\ \E j \in LogTrades(trace') : j < i]_vars

\* a LONG position closed by its tightened stop, logged and notified
C4_Witness ==
    /\ pc = "main"
    /\ ExitSends(trace) # {}
    /\ position # None
    /\ position[1].trade_type = "LONG"
    /\ position[1].stop_loss > position[1].entry_price * 1000
    /\ trade_log # <<>>
    /\ trade_log[Len(trade_log)].exit_price = current_price[1]

\* C5: at most one position is open at any time: the positions opened and not
\* yet closed (logged, or given up because log_trade raised) number one inside
\* trailing_stop_loss and none wherever a band or a signal is computed or a
\* position is entered; with no exception every earlier position is logged.
C5_AtMostOnePosition ==
    /\ entered - logged - aborted = (IF pc = "trailing" THEN 1 ELSE 0)
    /\ (pc \in {"cycle", "monitor"} /\ aborted = 0) => entered = logged
    /\ pc = "trailing" <=> (position # None /\ entry_signal # "None")

\* a second position is open after the first was closed and logged
C5_Witness ==
    /\ pc = "trailing"
    /\ entered = 2
    /\ logged = 1
    /\ aborted = 0

\* C6: with no signal set, a price > high sets LONG, a price < low sets SHORT,
\* a price with low <= price <= high sets no signal and opens no position;
\* once set the signal never changes within the cycle and a position opened
\* in the cycle has the signal's direction.
C6_SignalFromBand ==
    [][/\ (MonitorPolled /\ entry_signal = "None") =>
            LET p == current_price'[1]
            IN  /\ p > high[1] => entry_signal' = "LONG"
                /\ p < low[1] => entry_signal' = "SHORT"
                /\ (low[1] <= p /\ p <= high[1]) =>
                      /\ entry_signal' = "None"
                      /\ pc' = "monitor"
                      /\ position' = None
                      /\ entered' = entered
       /\ (entry_signal # "None" /\ pc' \in {"monitor", "trailing"})
             => entry_signal' = entry_signal
       /\ pc' = "trailing" => position'[1].trade_type = entry_signal']_vars

\* a price on the upper band edge was polled and set no signal
C6_Witness ==
    /\ pc = "monitor"
    /\ current_price # None
    /\ current_price[1] = high[1]
    /\ entry_signal = "None"

\* C7: every TradeRecord has profit_loss = (exit - entry) * TRADE_AMOUNT for
\* LONG and (entry - exit) * TRADE_AMOUNT for SHORT, within the rounding to
\* four decimals (half a unit of the fourth decimal).
C7_ProfitLossSign ==
    \A i \in 1..Len(trade_log) :
       LET r == trade_log[i]
       IN  /\ r.trade_type = "LONG"
                => Abs(10 * r.profit_loss - (r.exit_price - r.entry_price)) <= 5
           /\ r.trade_type = "SHORT"
                => Abs(10 * r.profit_loss - (r.entry_price - r.exit_price)) <= 5

\* a SHORT trade of this run closed at a loss that rounding does not hide
C7_Witness ==
    /\ logged = 1
    /\ trade_log[Len(trade_log)].trade_type = "SHORT"
    /\ trade_log[Len(trade_log)].profit_loss = -1
    /\ trade_log[Len(trade_log)].exit_price > trade_log[Len(trade_log)].entry_price

RECURSIVE TotalUpTo(_, _)
TotalUpTo(trades, n) ==
    IF n = 0 THEN 0 ELSE TotalUpTo(trades, n - 1) + trades[n].profit_loss

\* C8: generate_summary appends one SummaryRecord whose total_profit_loss is
\* the sum of profit_loss over the live log, whose trade_count is their number
\* and whose trades are those records, and leaves the live log empty; on an
\* empty log the record has total 0 and count 0 and the log stays empty.
C8_SummaryOfLog ==
    [][(pc = "main" /\ SummaryDue(now, start_time) /\ pc' = "cycle") =>
         /\ Len(archive') = Len(archive) + 1
         /\ SubSeq(archive', 1, Len(archive)) = archive
         /\ LET rec == archive'[Len(archive')]
            IN  /\ rec.total_profit_loss = TotalUpTo(trade_log, Len(trade_log))
                /\ rec.trade_count = Len(trade_log)
                /\ rec.trades = trade_log
                /\ trade_log = <<>> =>
                      (rec.total_profit_loss = 0 /\ rec.trade_count = 0)
         /\ trade_log' = <<>>]_vars

\* a summary of three trades followed by a summary of the emptied log
C8_Witness ==
    /\ pc = "cycle"
    /\ Len(archive) = 2
    /\ archive[1].trade_count = 3
    /\ archive[1].total_profit_loss = 1
    /\ archive[2].trade_count = 0
    /\ archive[2].total_profit_loss = 0
    /\ trade_log = <<>>

\* a step in which log_trade or generate_summary raised
Raised ==
    \/ pc = "trailing" /\ aborted' = aborted + 1
    \/ pc = "main" /\ SummaryDue(now, start_time) /\ pc' # "cycle"

\* C9: an exception raised in a scheduler iteration is caught by main, which
\* sends a notification with the error text, sleeps 10 seconds and begins a
\* new iteration; the process never terminates because of an error.
C9_CrashHandled ==
    /\ [](pc # "terminated")
    /\ [][Raised =>
            /\ pc' = "main"
            /\ Len(trace') >= 2
            /\ trace'[Len(trace') - 1].op = "send"
            /\ trace'[Len(trace') - 1].kind = "crash"
            /\ trace'[Len(trace') - 1].dir \in ExceptionClasses
            /\ trace'[Len(trace')] = Slept(CRASH_SECONDS)]_vars

\* log_trade raised a JSONDecodeError while a position was open
C9_Witness ==
    /\ pc = "main"
    /\ aborted = 1
    /\ position # None
    /\ Len(trace) >= 2
    /\ trace[Len(trace) - 1].kind = "crash"
    /\ trace[Len(trace) - 1].dir = "JSONDecodeError"

\* C10: a summary is generated at the start of an iteration exactly when 30
\* days have passed since start_time, and start_time is then reset, so that
\* any two SummaryRecords are at least 30 days apart.
C10_SummariesThirtyDaysApart ==
    \A i, j \in 1..Len(archive) :
       i < j => archive[j].end_date >= archive[i].end_date + SUMMARY_DAYS

\* The part of C10 that holds: generate_summary runs, before monitor_market,
\* exactly in the iterations that begin 30 days or more after start_time, and
\* start_time is reset when it returns.
C10_RolloverWhenDue ==
    [][pc = "main" =>
         /\ archive' # archive => SummaryDue(now, start_time)
         /\ (SummaryDue(now, start_time) /\ pc' = "cycle") =>
               (archive' # archive /\ start_time' = now)
         /\ ~SummaryDue(now, start_time) =>
               (pc' = "cycle" /\ UNCHANGED <<archive, trade_log, start_time>>)]_vars

\* the posts of a step that failed
FailedSends(tr) == {i \in 1..Len(tr) : tr[i].op = "send" /\ ~tr[i].ok}

\* C11: a failed send_telegram_message raises nothing and is not retried: in
\* the step of a failed post no crash report follows it and the message is
\* posted once, and the signal, the position, the trade log and the scheduler
\* go on as after a delivered post, at every call site (monitoring, signal,
\* entry, exit, summary report, crash report).
C11_FailedSendIgnored ==
    [][\A i \in FailedSends(trace') :
          LET m == trace'[i]
          IN  /\ pc' # "terminated"
              /\ \A j \in 1..Len(trace') :
                    (j # i /\ trace'[j].op = "send") =>
                       /\ trace'[j].kind # m.kind
                       /\ j > i => trace'[j].kind # "crash"
              /\ m.kind = "monitoring" =>
                    (pc' = "monitor" /\ high' # None /\ low' # None)
              /\ m.kind = "signal" =>
                    (entry_signal' = m.dir /\ pc' \in {"monitor", "trailing"})
              /\ m.kind \in {"chase", "retracement"} =>
                    /\ pc' = "trailing"
                    /\ position' # None
                    /\ position'[1].entry_price = m.val
                    /\ position'[1].trade_type = m.dir
                    /\ entered' = entered + 1
              /\ m.kind = "exit" =>
                    /\ pc' = "main"
                    /\ Len(trade_log') = Len(trade_log) + 1
                    /\ trade_log'[Len(trade_log')].exit_price = m.val
                    /\ i + 1 = Len(trace')
                    /\ trace'[i + 1] = Slept(COOLDOWN_PERIOD)
              /\ m.kind = "report" =>
                    /\ pc' = "cycle"
                    /\ Len(archive') = Len(archive) + 1
                    /\ trade_log' = <<>>
                    /\ start_time' = now
              /\ m.kind = "crash" =>
                    /\ pc' = "main"
                    /\ i + 1 = Len(trace')
                    /\ trace'[i + 1] = Slept(CRASH_SECONDS)]_vars

\* the exit notification of a logged trade was not delivered and the bot is
\* back in the scheduler loop after its cooldown
C11_Witness ==
    /\ pc = "main"
    /\ logged >= 1
    /\ \E i \in ExitSends(trace) : i \in FailedSends(trace)
    /\ trace[Len(trace)] = Slept(COOLDOWN_PERIOD)

\* C12: for every non-empty candle set get_high_low returns the greatest
\* candle high and the least candle low, so high >= every candle's high,
\* low <= every candle's low and low <= high; for an empty set it returns
\* (None, None).
C12_HighLowOfCandles ==
    [][pc = "cycle" =>
         /\ candles' = {} => (high' = None /\ low' = None)
         /\ candles' # {} =>
               /\ high' # None
               /\ low' # None
               /\ \A c \in candles' : high'[1] >= c.high /\ low'[1] <= c.low
               /\ \E c \in candles' : high'[1] = c.high
               /\ \E c \in candles' : low'[1] = c.low
               /\ low'[1] <= high'[1]]_vars

\* a band whose high and low come from two different candles
C12_Witness ==
    /\ pc = "monitor"
    /\ Cardinality(candles) = 2
    /\ \E c \in candles : c.high < high[1]
    /\ \E c \in candles : c.low > low[1]

\* the calls of the exchange client made in a step
Calls(tr) == {i \in 1..Len(tr) : tr[i].op = "call"}

\* C13: one invocation of fetch_candles or get_current_price calls the
\* gateway at most 3 times, makes no call after one that returned, sleeps 5
\* seconds after a call that raised before it calls again, and when every
\* call raised it returns the empty list / None: nothing is raised, the cycle
\* is skipped or the tick polls again.
C13_BoundedRetries ==
    [][(pc = "cycle" \/ pc = "monitor" \/ pc = "trailing") =>
         LET made == Calls(trace')
         IN  /\ made # {}
             /\ Cardinality(made) <= RETRIES
             /\ \A i \in made :
                   /\ trace'[i].kind =
                         (IF pc = "cycle" THEN "fetch_ohlcv" ELSE "fetch_ticker")
                   /\ trace'[i].ok => \A j \in made : j <= i
                   /\ ~trace'[i].ok =>
                         /\ i < Len(trace')
                         /\ trace'[i + 1] = Slept(BACKOFF_SECONDS)
             /\ (\A i \in made : ~trace'[i].ok) =>
                   /\ Cardinality(made) = RETRIES
                   /\ pc = "cycle" =>
                         /\ candles' = {}
                         /\ pc' = "main"
                         /\ trace'[Len(trace')] = Slept(COOLDOWN_PERIOD)
                   /\ pc # "cycle" =>
                         /\ current_price' = None
                         /\ pc' = pc
             /\ ((\E i \in made : trace'[i].ok) /\ pc # "cycle")
                   => current_price' # None]_vars

\* a price returned by the third call, after two that raised
C13_Witness ==
    /\ pc = "monitor"
    /\ current_price # None
    /\ \E i \in Calls(trace) : trace[i].val = RETRIES /\ trace[i].ok
    /\ Cardinality(Calls(trace)) = RETRIES

\* C14: when fetch_candles returns no candles, monitor_market returns at
\* once: no price is polled, no signal is set, no position is opened, no
\* TradeRecord is appended, nothing is notified, and main sleeps the whole
\* COOLDOWN_PERIOD (15 minutes) before the iteration that fetches candles
\* again.
C14_SkipWithoutCandles ==
    [][(pc = "cycle" /\ candles' = {}) =>
         /\ pc' = "main"
         /\ \A i \in 1..Len(trace') : trace'[i].op # "send"
         /\ \A i \in Calls(trace') : trace'[i].kind = "fetch_ohlcv"
         /\ trace'[Len(trace')].op = "sleep"
         /\ trace'[Len(trace')].val = 15 * 60
         /\ entry_signal' = "None"
         /\ position' = None
         /\ current_price' = None
         /\ UNCHANGED <<trade_log, archive, entered, logged, aborted,
                        start_time>>]_vars

\* a cycle skipped after three failed candle fetches, back in main after the
\* cooldown
C14_Witness ==
    /\ pc = "main"
    /\ candles = {}
    /\ Cardinality(Calls(trace)) = RETRIES
    /\ \A i \in Calls(trace) : trace[i].kind = "fetch_ohlcv" /\ ~trace[i].ok
    /\ trace[Len(trace)] = Slept(COOLDOWN_PERIOD)

\* C15: a tick on which get_current_price returns None changes no state: in
\* monitor_market the band and the signal stay and no position is opened; in
\* trailing_stop_loss entry_price, direction and stop_loss stay, the position
\* stays open and nothing is logged or notified; the loop polls again.
C15_UnavailablePriceSkips ==
    [][((pc = "monitor" \/ pc = "trailing") /\ current_price' = None) =>
         /\ pc' = pc
         /\ UNCHANGED <<candles, high, low, entry_signal, position, trade_log,
                        archive, start_time, entered, logged, aborted>>
         /\ \A i \in 1..Len(trace') :
               trace'[i].op \in {"sleep", "call"}]_vars

\* an open LONG position with a tightened stop after a tick without a price
C15_Witness ==
    /\ pc = "trailing"
    /\ current_price = None
    /\ position # None
    /\ position[1].trade_type = "LONG"
    /\ position[1].stop_loss = position[1].entry_price * 1005
    /\ Cardinality(Calls(trace)) = RETRIES

\* C16: when a position is opened its entry_price is the price polled on
\* that tick and its stop_loss is the opposite edge of the cycle's band, low
\* for LONG and high for SHORT; so the initial stop_loss is strictly below
\* the entry price for LONG and strictly above it for SHORT.
C16_InitialStopOppositeEdge ==
    [][(pc = "monitor" /\ pc' = "trailing") =>
         /\ position' # None
         /\ current_price' # None
         /\ position'[1].entry_price = current_price'[1]
         /\ position'[1].trade_type \in {"LONG", "SHORT"}
         /\ position'[1].trade_type = "LONG" =>
               /\ position'[1].stop_loss = low[1] * 1000
               /\ position'[1].stop_loss < position'[1].entry_price * 1000
         /\ position'[1].trade_type = "SHORT" =>
               /\ position'[1].stop_loss = high[1] * 1000
               /\ position'[1].stop_loss > position'[1].entry_price * 1000]_vars

\* a SHORT position just opened below a band of two candles
C16_Witness ==
    /\ pc = "trailing"
    /\ EntrySends(trace) # {}
    /\ position[1].trade_type = "SHORT"
    /\ position[1].entry_price = current_price[1]
    /\ position[1].stop_loss = high[1] * 1000
    /\ high[1] > low[1]
    /\ current_price[1] < low[1]

\* where the archive holds TradeRecords: <<k, i>> is record i of summary k
Archived_at == UNION {{<<k, i>> : i \in 1..Len(archive[k].trades)} :
                        k \in 1..Len(archive)}

\* the places, in the live log and in the archive, that hold the record r
PlacesOf(r) ==
    Cardinality({i \in 1..Len(trade_log) : trade_log[i] = r})
       + Cardinality({q \in Archived_at : archive[q[1]].trades[q[2]] = r})

\* C17: every TradeRecord ever appended to the live log is either still in
\* the live log or in exactly one SummaryRecord, never in both, in neither or
\* in two: the records of this run held in the two stores number what
\* log_trade appended, and a record found by a restarted bot is held once.
C17_EveryTradeInOnePlace ==
    /\ Cardinality({i \in 1..Len(trade_log) : trade_log[i].time >= 0})
          + Cardinality({q \in Archived_at :
                            archive[q[1]].trades[q[2]].time >= 0})
       = logged
    /\ \A r \in {trade_log[i] : i \in 1..Len(trade_log)}
              \cup {archive[q[1]].trades[q[2]] : q \in Archived_at} :
          r.time < 0 => PlacesOf(r) = 1

\* C18: every TradeRecord held in a SummaryRecord has its time between the
\* start_date and the end_date of that SummaryRecord, both included.
C18_TradesWithinSummaryDates ==
    \A q \in Archived_at :
       LET rec == archive[q[1]]
           t == rec.trades[q[2]].time
       IN  rec.start_date <= t /\ t <= rec.end_date

\* C19: the LONG stop_loss never exceeds entry * 1.01 and the SHORT stop_loss
\* never falls below entry * 0.99; so every LONG TradeRecord has exit_price <
\* entry_price * 1.01 and every SHORT TradeRecord has exit_price >
\* entry_price * 0.99: no recorded trade gains 1% or more.  (The loss has no
\* such bound, see the witness.)
C19_GainBelowOnePercent ==
    /\ position # None =>
          /\ position[1].trade_type = "LONG" =>
                position[1].stop_loss <= position[1].entry_price * 1010
          /\ position[1].trade_type = "SHORT" =>
                position[1].stop_loss >= position[1].entry_price * 990
    /\ \A i \in 1..Len(trade_log) :
          LET r == trade_log[i]
          IN  /\ r.trade_type = "LONG" => r.exit_price * 100 < r.entry_price * 101
              /\ r.trade_type = "SHORT" => r.exit_price * 100 > r.entry_price * 99

\* a LONG position whose stop had reached entry * 1.01 and that was closed
\* and recorded by a price more than 1% below the entry
C19_Witness ==
    /\ pc = "main"
    /\ logged = 1
    /\ position # None
    /\ position[1].trade_type = "LONG"
    /\ position[1].stop_loss = position[1].entry_price * 1010
    /\ trade_log[Len(trade_log)].entry_price = position[1].entry_price
    /\ trade_log[Len(trade_log)].exit_price * 100 < position[1].entry_price * 99

\* C20: a tick whose price is beyond the first tightening threshold (LONG:
\* price > entry * 1.01, SHORT: price < entry * 0.99) never closes the
\* position: it stays open and nothing is logged or notified on that tick.
C20_NoExitOnTighteningTick ==
    [][TrailingPolled =>
         LET p == current_price'[1]
             e == position[1].entry_price
             beyond == IF position[1].trade_type = "LONG"
                       THEN p * 100 > e * 101 ELSE p * 100 < e * 99
         IN  beyond =>
                /\ pc' = "trailing"
                /\ trade_log' = trade_log
                /\ logged' = logged
                /\ aborted' = aborted
                /\ ExitSends(trace') = {}]_vars

\* a SHORT position still open after the tick that first tightened its stop
C20_Witness ==
    /\ pc = "trailing"
    /\ position[1].trade_type = "SHORT"
    /\ current_price # None
    /\ current_price[1] * 100 < position[1].entry_price * 99
    /\ current_price[1] * 100 >= position[1].entry_price * 98
    /\ position[1].stop_loss = position[1].entry_price * 995

====
